---- MODULE Spec2Model ----
(***************************************************************************)
(* Model of src/src/lib/bshbd.py: resize_and_encode (lines 6-28) and the   *)
(* module-level script that calls it and then issues one completion        *)
(* request inside a try/except (lines 32-58).                              *)
(*                                                                         *)
(* The size computation of lines 15-17 is done in Python floats (IEEE 754  *)
(* binary64).  It is modelled bit for bit: a float is a sign, an unbiased  *)
(* exponent and the 52-bit fraction field kept as four 13-bit limbs, so    *)
(* every intermediate integer stays small.                                 *)
(***************************************************************************)
EXTENDS Integers, Sequences, FiniteSets, TLC

\* ------------------------------------------------------------------ bounds
MaxSide == 22      \* widths and heights of the source images: 1..MaxSide
MaxBound == 16     \* largest max_dimension a caller passes
NegBound == 1      \* smallest max_dimension a caller passes is -NegBound

\* ------------------------------------------------- IEEE 754 binary64 floats
\* A float is [sgn, exp, frac]: sgn * (1 + frac / 2^52) * 2^exp, where frac is
\* the 52-bit fraction field kept as four 13-bit limbs, most significant first
\* (sgn = 0 is 0.0).  The operands of lines 15-17 are far from the subnormal
\* and overflow ranges, which are not modelled.
LimbBits == 13     \* 4 * 13 = 52 fraction bits of a Python float

Limbs == 4

Base == 8192       \* 2^LimbBits

Abs(n) == IF n < 0 THEN 0 - n ELSE n

Max(a, b) == IF a >= b THEN a ELSE b

Sign(n) == IF n < 0 THEN 0 - 1 ELSE IF n = 0 THEN 0 ELSE 1

RECURSIVE Pow2(_)
Pow2(n) == IF n = 0 THEN 1 ELSE 2 * Pow2(n - 1)

\* number of binary digits of n >= 1
RECURSIVE BitLen(_)
BitLen(n) == IF n <= 1 THEN 1 ELSE 1 + BitLen(n \div 2)

\* the exponent e with 2^e <= a/b < 2^(e+1), for a > 0 and b > 0
RECURSIVE DivExp(_, _)
DivExp(a, b) ==
  IF a >= 2 * b THEN DivExp(a, 2 * b) + 1
  ELSE IF a < b THEN DivExp(2 * a, b) - 1
  ELSE 0

FZero == [sgn |-> 0, exp |-> 0, frac |-> <<0, 0, 0, 0>>]

\* the fraction plus one unit in the last place; all ones wrap to all zeros
IncFrac(frac) ==
  LET room == {i \in 1..Limbs : frac[i] < Base - 1}
  IN IF room = {} THEN [i \in 1..Limbs |-> 0]
     ELSE LET k == CHOOSE i \in room : \A j \in room : j <= i
          IN [i \in 1..Limbs |->
                IF i < k THEN frac[i] ELSE IF i = k THEN frac[i] + 1 ELSE 0]

\* round to nearest, ties to even: `up` says that the discarded part is above
\* half a unit in the last place, or exactly half with the last kept bit odd
RoundNearestEven(sgn, exp, frac, up) ==
  IF ~up THEN [sgn |-> sgn, exp |-> exp, frac |-> frac]
  ELSE IF \A i \in 1..Limbs : frac[i] = Base - 1
       THEN [sgn |-> sgn, exp |-> exp + 1, frac |-> IncFrac(frac)]
       ELSE [sgn |-> sgn, exp |-> exp, frac |-> IncFrac(frac)]

\* Python's a / b for ints a and b > 0: the correctly rounded quotient, by
\* long division, one limb of the quotient at a time
FloatDiv(a, b) ==
  IF a = 0 THEN FZero
  ELSE LET e == DivExp(Abs(a), b)
           num == IF e >= 0 THEN Abs(a) ELSE Abs(a) * Pow2(0 - e)
           den == IF e >= 0 THEN b * Pow2(e) ELSE b
           r0 == num - den
           r1 == (r0 * Base) % den
           r2 == (r1 * Base) % den
           r3 == (r2 * Base) % den
           r4 == (r3 * Base) % den
           frac == <<(r0 * Base) \div den, (r1 * Base) \div den,
                     (r2 * Base) \div den, (r3 * Base) \div den>>
           up == 2 * r4 > den \/ (2 * r4 = den /\ frac[Limbs] % 2 = 1)
       IN RoundNearestEven(Sign(a), e, frac, up)

\* Python's w * f for an int 1 <= w < Base and a float f: w converts exactly,
\* and the product is the correctly rounded value of the exact product
FloatMulInt(w, f) ==
  IF f.sgn = 0 THEN FZero
  ELSE LET c4 == w * f.frac[4]
           c3 == w * f.frac[3] + c4 \div Base
           c2 == w * f.frac[2] + c3 \div Base
           c1 == w * f.frac[1] + c2 \div Base
           top == w + c1 \div Base            \* the bits above the fraction
           extra == BitLen(top) - 1           \* bits to shift out
           S == Pow2(extra)
           q == <<top - S, c1 % Base, c2 % Base, c3 % Base, c4 % Base>>
           frac == [i \in 1..Limbs |->
                      (q[i] % S) * (Base \div S) + q[i + 1] \div S]
           dropped == q[Limbs + 1] % S
           up == 2 * dropped > S \/ (2 * dropped = S /\ frac[Limbs] % 2 = 1)
       IN RoundNearestEven(f.sgn, f.exp + extra, frac, up)

\* the part of limb l that lies at or above the binary point when the limb's
\* lowest bit has weight 2^s
LimbPart(l, s) ==
  IF s >= 0 THEN l * Pow2(s)
  ELSE IF s > 0 - LimbBits THEN l \div Pow2(0 - s)
  ELSE 0

\* Python's int(f): truncation toward zero (for |f| < 2^30)
FloatToInt(f) ==
  IF f.sgn = 0 \/ f.exp < 0 THEN 0
  ELSE f.sgn * (Pow2(f.exp)
                + LimbPart(f.frac[1], f.exp - LimbBits)
                + LimbPart(f.frac[2], f.exp - 2 * LimbBits)
                + LimbPart(f.frac[3], f.exp - 3 * LimbBits)
                + LimbPart(f.frac[4], f.exp - 4 * LimbBits))

\* ------------------------------------------------------- the image library
DefaultMaxDimension == 2048   \* default of the max_dimension parameter

Quality == 85                 \* JPEG quality passed to img.save

Modes == {"L", "RGB", "RGBA", "CMYK"}

\* number of channels of a PIL mode
Channels(mode) ==
  CASE mode = "L" -> 1
    [] mode = "RGB" -> 3
    [] mode = "RGBA" -> 4
    [] mode = "CMYK" -> 4
    [] OTHER -> 0

\* the modes PIL's JPEG encoder writes; any other mode raises OSError
JpegModes == {"L", "RGB", "CMYK"}

NoImg == [w |-> 0, h |-> 0, mode |-> "none"]

NoJpeg == [w |-> 0, h |-> 0, channels |-> 0, quality |-> 0]

NoRet == [encoding |-> "none", payload |-> NoJpeg]

\* what image_path can resolve to: no readable file, bytes that are not an
\* image, or an image of some size and mode
Sources ==
  {[kind |-> "missing", w |-> 0, h |-> 0, mode |-> "none"],
   [kind |-> "corrupt", w |-> 0, h |-> 0, mode |-> "none"]}
  \cup [kind : {"image"}, w : 1..MaxSide, h : 1..MaxSide, mode : Modes]

\* Image.open raising the same OSError for every source it cannot load
OpenErrorOSError(kind) == "OSError"

\* Image.open on something that is not a readable image
OpenError(kind) ==
  IF kind = "missing" THEN "FileNotFoundError" ELSE "UnidentifiedImageError"

\* Image.resize rejects a target size with a side below one pixel (ValueError)
ResizeRejects(w, h) == w < 1 \/ h < 1

\* ---------------------------------------------------------------- the state
VARIABLES
  source,         \* what image_path resolves to
  max_dimension,  \* the argument of the call
  pc,             \* position in resize_and_encode
  fp,             \* TRUE while the image opened by the with statement is open
  img,            \* the image the local name img is bound to
  width, height,  \* locals of line 13 (0 before it)
  new_width, new_height,   \* locals of lines 16-17 (0 before them)
  resampled,      \* "no", or how the call of img.resize ended: "done", "failed"
  buffered,       \* the JPEG written to the BytesIO buffer
  ret,            \* the value returned
  exc,            \* the exception the call raised, "none" if none
  history,        \* the finished passes of a re-normalization run
  spc,            \* position in the module-level script, "direct" outside it
  base64_image,   \* the script's global of line 32
  request,        \* the completion request sent, NoRet if none
  printed,        \* what the script printed: "", "json" or "Error"
  raisedInScript  \* the exception a statement of lines 35-55 raised, or "none"

fvars == <<source, max_dimension, pc, fp, img, width, height, new_width,
           new_height, resampled, buffered, ret, exc>>

svars == <<spc, base64_image, request, printed, raisedInScript>>

vars == <<fvars, history, svars>>

\* ------------------------------------------------------ resize_and_encode
\* the branch taken whenever the longest side differs from the bound
NeedsResizeUnequal(w, h, bound) == Max(w, h) # bound

\* the branch skipped for a bound that is not positive
NeedsResizePositive(w, h, bound) == bound > 0 /\ Max(w, h) > bound

\* line 14: the test that selects the resize branch
NeedsResize(w, h, bound) == Max(w, h) > bound

\* the scale taken from the shortest side
ScaleFactorShortSide(w, h, bound) == FloatDiv(bound, IF w <= h THEN w ELSE h)

\* line 15: scale_factor = max_dimension / max(width, height)
ScaleFactor(w, h, bound) == FloatDiv(bound, Max(w, h))

\* the product rounded half up instead of truncated
ScaledRounded(side, scale_factor) ==
  LET p == FloatMulInt(side, scale_factor)
  IN FloatToInt(p) + (FloatToInt([p EXCEPT !.exp = @ + 1]) % 2)

\* lines 16-17: int(side * scale_factor)
Scaled(side, scale_factor) == FloatToInt(FloatMulInt(side, scale_factor))

\* the image left open when the block is left by an exception
ExitWithLeak(raising) == raising

\* leaving the with block of line 11, by return or by an exception, runs the
\* image's __exit__, which closes it: the value of fp afterwards
ExitWith(raising) == FALSE

\* the fresh frame of a call
Call(src, bound) ==
  /\ source' = src
  /\ max_dimension' = bound
  /\ pc' = "call"
  /\ fp' = FALSE
  /\ img' = NoImg
  /\ width' = 0 /\ height' = 0 /\ new_width' = 0 /\ new_height' = 0
  /\ resampled' = "no"
  /\ buffered' = NoJpeg
  /\ ret' = NoRet
  /\ exc' = "none"

\* line 11: Image.open(image_path)
Open ==
  /\ pc = "call"
  /\ IF source.kind = "image"
     THEN /\ fp' = TRUE
          /\ img' = [w |-> source.w, h |-> source.h, mode |-> source.mode]
          /\ pc' = "opened"
          /\ exc' = exc
     ELSE /\ exc' = OpenError(source.kind)
          /\ pc' = "raised"
          /\ UNCHANGED <<fp, img>>
  /\ UNCHANGED <<source, max_dimension, width, height, new_width, new_height,
                 resampled, buffered, ret, history, svars>>

\* lines 13-18: measure, and resize when the longest side exceeds the bound
Resize ==
  /\ pc = "opened"
  /\ width' = img.w
  /\ height' = img.h
  /\ IF NeedsResize(img.w, img.h, max_dimension)
     THEN LET scale_factor == ScaleFactor(img.w, img.h, max_dimension)
              nw == Scaled(img.w, scale_factor)
              nh == Scaled(img.h, scale_factor)
          IN /\ new_width' = nw
             /\ new_height' = nh
             /\ IF ResizeRejects(nw, nh)
                THEN /\ resampled' = "failed"
                     /\ exc' = "ValueError"
                     /\ fp' = ExitWith(TRUE)
                     /\ pc' = "raised"
                     /\ img' = img
                ELSE /\ resampled' = "done"
                     /\ img' = [w |-> nw, h |-> nh, mode |-> img.mode]
                     /\ pc' = "sized"
                     /\ UNCHANGED <<exc, fp>>
     ELSE /\ pc' = "sized"
          /\ UNCHANGED <<new_width, new_height, resampled, exc, fp, img>>
  /\ UNCHANGED <<source, max_dimension, buffered, ret, history, svars>>

\* lines 21-23: the empty buffer, and img.convert("RGB")
Convert ==
  /\ pc = "sized"
  /\ img' = [img EXCEPT !.mode = "RGB"]
  /\ pc' = "flattened"
  /\ UNCHANGED <<source, max_dimension, fp, width, height, new_width,
                 new_height, resampled, buffered, ret, exc, history, svars>>

\* line 25: img.save(buffered, format="JPEG", quality=85)
Save ==
  /\ pc = "flattened"
  /\ IF img.mode \in JpegModes
     THEN /\ buffered' = [w |-> img.w, h |-> img.h,
                          channels |-> Channels(img.mode), quality |-> Quality]
          /\ pc' = "saved"
          /\ UNCHANGED <<exc, fp>>
     ELSE /\ exc' = "OSError"
          /\ fp' = ExitWith(TRUE)
          /\ pc' = "raised"
          /\ buffered' = buffered
  /\ UNCHANGED <<source, max_dimension, img, width, height, new_width,
                 new_height, resampled, ret, history, svars>>

\* line 28: base64 of the buffer, returned through the end of the with block
Return ==
  /\ pc = "saved"
  /\ ret' = [encoding |-> "base64", payload |-> buffered]
  /\ fp' = ExitWith(FALSE)
  /\ pc' = "returned"
  /\ UNCHANGED <<source, max_dimension, img, width, height, new_width,
                 new_height, resampled, buffered, exc, history, svars>>

\* ------------------------------------------------------- re-normalization
\* the image a returned payload decodes to
Decoded(r) ==
  [kind |-> "image", w |-> r.payload.w, h |-> r.payload.h,
   mode |-> IF r.payload.channels = 3 THEN "RGB" ELSE "L"]

\* the output of a first call is fed to a second call with the same bound
Renormalize ==
  /\ spc = "direct"
  /\ pc = "returned"
  /\ history = <<>>
  /\ history' = <<[in |-> source, out |-> ret.payload,
                   resampled |-> resampled]>>
  /\ Call(Decoded(ret), max_dimension)
  /\ UNCHANGED svars

\* ------------------------------------------------------------- the script
\* the try block drawn around line 32 as well
InTryWithCall(position) == TRUE

\* the positions of the script that lie inside the try block (lines 34-55)
InTry(position) == position \in {"try", "parse"}

\* an exception raised at a position of the script: the handler of line 57
\* prints "Error: ..." if the position is inside the try, else the exception
\* leaves the script
ScriptRaise(position) ==
  IF InTry(position)
  THEN /\ printed' = "Error"
       /\ spc' = "done"
  ELSE /\ printed' = printed
       /\ spc' = "propagated"

\* line 32, the call returned: base64_image is bound
ScriptAssign ==
  /\ spc = "line32"
  /\ pc = "returned"
  /\ base64_image' = ret
  /\ spc' = "try"
  /\ UNCHANGED <<fvars, history, request, printed, raisedInScript>>

\* line 32, the call raised: nothing encloses it
ScriptCallRaised ==
  /\ spc = "line32"
  /\ pc = "raised"
  /\ ScriptRaise("line32")
  /\ UNCHANGED <<fvars, history, base64_image, request, raisedInScript>>

\* what line 35 can do: the global client is not bound (NameError, nothing is
\* sent), the request is sent and answered, or it is sent and fails
RequestOutcomes == {"ok", "NameError", "APIError"}

\* lines 35-54: client.chat.completions.create(...) with the data URL
Request ==
  /\ spc = "try"
  /\ \E outcome \in RequestOutcomes :
       /\ request' = IF outcome = "NameError" THEN request ELSE base64_image
       /\ IF outcome = "ok"
          THEN /\ spc' = "parse"
               /\ UNCHANGED <<printed, raisedInScript>>
          ELSE /\ raisedInScript' = outcome
               /\ ScriptRaise("try")
  /\ UNCHANGED <<fvars, history, base64_image>>

\* line 55: print(json.loads(response.choices[0].message.content))
Parse ==
  /\ spc = "parse"
  /\ \E ok \in BOOLEAN :
       IF ok
       THEN /\ printed' = "json"
            /\ spc' = "done"
            /\ UNCHANGED raisedInScript
       ELSE /\ raisedInScript' = "JSONDecodeError"
            /\ ScriptRaise("parse")
  /\ UNCHANGED <<fvars, history, base64_image, request>>

\* ------------------------------------------------------- specifications
Init ==
  /\ source \in Sources
  /\ max_dimension \in (0 - NegBound)..MaxBound
  /\ pc = "call"
  /\ fp = FALSE
  /\ img = NoImg
  /\ width = 0 /\ height = 0 /\ new_width = 0 /\ new_height = 0
  /\ resampled = "no"
  /\ buffered = NoJpeg
  /\ ret = NoRet
  /\ exc = "none"
  /\ history = <<>>
  /\ spc = "direct"
  /\ base64_image = NoRet
  /\ request = NoRet
  /\ printed = ""
  /\ raisedInScript = "none"

Next == Open \/ Resize \/ Convert \/ Save \/ Return \/ Renormalize

\* resize_and_encode called directly, with any source and any bound
Spec == Init /\ [][Next]_vars

\* the script: line 32 calls with the path alone, so with the default bound
ScriptInit ==
  /\ source \in Sources
  /\ max_dimension = DefaultMaxDimension
  /\ pc = "call"
  /\ fp = FALSE
  /\ img = NoImg
  /\ width = 0 /\ height = 0 /\ new_width = 0 /\ new_height = 0
  /\ resampled = "no"
  /\ buffered = NoJpeg
  /\ ret = NoRet
  /\ exc = "none"
  /\ history = <<>>
  /\ spc = "line32"
  /\ base64_image = NoRet
  /\ request = NoRet
  /\ printed = ""
  /\ raisedInScript = "none"

ScriptNext ==
  \/ Open \/ Resize \/ Convert \/ Save \/ Return
  \/ ScriptAssign \/ ScriptCallRaised \/ Request \/ Parse

ScriptSpec == ScriptInit /\ [][ScriptNext]_vars

\* ------------------------------------------------------------ properties
Terminal == pc \in {"returned", "raised"}

Decodable == source.kind = "image"

LongestSide == Max(source.w, source.h)

\* the error classes of the design's taxonomy that the Python exceptions fall in
ErrorClass(e) ==
  CASE e = "FileNotFoundError" -> "SourceUnavailableError"
    [] e = "UnidentifiedImageError" -> "DecodeError"
    [] e = "ValueError" -> "InvalidArgumentError"
    [] OTHER -> "other"

\* n / m rounded to the nearest integer, ties to even (Python's round)
RoundDiv(n, m) ==
  LET q == n \div m
      r == n % m
  IN IF 2 * r > m \/ (2 * r = m /\ q % 2 = 1) THEN q + 1 ELSE q

\* the truncation of the float product of lines 16-17, against the exact
\* scaled value n / m: its floor, or one below it when n / m is an integer
TruncatedScale(new, n, m) ==
  /\ new \in {n \div m, n \div m - 1}
  /\ n % m # 0 => new = n \div m

C2_NoUpscaling ==
  (Decodable /\ LongestSide <= max_dimension)
    => /\ resampled = "no"
       /\ pc # "raised"
       /\ pc \in {"saved", "returned"}
            => (buffered.w = source.w /\ buffered.h = source.h)
       /\ pc = "returned"
            => (ret.payload.w = source.w /\ ret.payload.h = source.h)

C2_Witness ==
  /\ pc = "returned"
  /\ history = <<>>
  /\ LongestSide <= max_dimension
  /\ ret.payload.w = source.w

\* C3 as stated: a call with max_dimension <= 0 ends, for every source, in an
\* InvalidArgumentError, with no resampled image, no encoding and no base64.
C3_InvalidArgumentForEverySource ==
  (max_dimension <= 0 /\ Terminal)
    => /\ pc = "raised"
       /\ ErrorClass(exc) = "InvalidArgumentError"
       /\ resampled # "done"
       /\ buffered = NoJpeg
       /\ ret = NoRet

\* C3 amended: a call with max_dimension <= 0 never returns and produces no
\* resampled image, no encoding and no base64; on a decodable source it fails
\* with the ValueError (invalid argument) of img.resize, on a source that is
\* missing or not an image with the error of Image.open, which comes first.
C3_NonPositiveBoundFails ==
  max_dimension <= 0
    => /\ pc \in {"call", "opened", "raised"}
       /\ resampled # "done"
       /\ buffered = NoJpeg
       /\ ret = NoRet
       /\ pc = "raised"
            => exc = (IF Decodable THEN "ValueError"
                      ELSE OpenError(source.kind))
       /\ (pc = "raised" /\ Decodable)
            => ErrorClass(exc) = "InvalidArgumentError"

C3_Witness ==
  /\ pc = "raised"
  /\ max_dimension <= 0
  /\ Decodable
  /\ exc = "ValueError"
  /\ resampled = "failed"

\* C4: for every decodable image and positive max_dimension the call returns,
\* and the encoded image has width >= 1, height >= 1 and 3 channels.
C4_AlwaysValidOutput ==
  (Decodable /\ max_dimension > 0)
    => /\ pc # "raised"
       /\ pc = "returned"
            => /\ ret.payload.w >= 1
               /\ ret.payload.h >= 1
               /\ ret.payload.channels = 3

\* C5 as stated: in the resize branch, new_width and new_height are the
\* nearest integers to W * max_dimension / max(W,H), H * max_dimension /
\* max(W,H).
C5_RoundedToNearest ==
  (resampled # "no" /\ max_dimension > 0)
    => /\ new_width = RoundDiv(width * max_dimension, Max(width, height))
       /\ new_height = RoundDiv(height * max_dimension, Max(width, height))

\* C5 amended: in the resize branch, new_width and new_height are the
\* truncations of the float products: the floor of the exact scaled value,
\* or one less than it when the exact scaled value is an integer.
C5_Truncated ==
  (resampled # "no" /\ max_dimension > 0)
    => /\ TruncatedScale(new_width, width * max_dimension,
                         Max(width, height))
       /\ TruncatedScale(new_height, height * max_dimension,
                         Max(width, height))

\* a resize whose truncated height is below the nearest integer
C5_Witness ==
  /\ resampled = "done"
  /\ max_dimension > 0
  /\ new_height < RoundDiv(height * max_dimension, Max(width, height))
  /\ new_height = (height * max_dimension) \div Max(width, height)

\* C6: after a resize, each output side differs from its exact scaled value by
\* less than one pixel, and the longer input side is not the shorter output
\* side.
C6_WithinOnePixel ==
  (resampled = "done" /\ max_dimension > 0)
    => LET m == Max(width, height)
       IN /\ Abs(new_width * m - width * max_dimension) < m
          /\ Abs(new_height * m - height * max_dimension) < m
          /\ width > height => new_width >= new_height
          /\ height > width => new_height >= new_width

\* C7: a second call on the output of a first call, with the same bound, does
\* not resize, does not raise, and encodes an image of the size of the first
\* output.
C7_Idempotent ==
  history # <<>>
    => /\ resampled = "no"
       /\ pc # "raised"
       /\ pc = "returned"
            => /\ ret.payload.w = history[1].out.w
               /\ ret.payload.h = history[1].out.h

C7_Witness ==
  /\ history # <<>>
  /\ pc = "returned"
  /\ history[1].resampled = "done"
  /\ ret.payload.w = history[1].out.w

C9_HandleReleased == Terminal => fp = FALSE

\* a call that opened the image and then raised in img.resize
C9_Witness ==
  /\ pc = "raised"
  /\ exc = "ValueError"
  /\ width > 0
  /\ fp = FALSE

\* C10: a request is sent only after resize_and_encode returned, and carries
\* what it returned; a failure of resize_and_encode is not caught, leaves the
\* script and no request is sent; a failure of the request or of the parsing
\* is caught and printed as "Error", and does not leave the script.
C10_TryGuardsOnlyTheRequest ==
  /\ request # NoRet => (pc = "returned" /\ request = ret)
  /\ spc \in {"try", "parse", "done"} => (pc = "returned" /\ base64_image = ret)
  /\ pc = "raised"
       => /\ spc \in {"line32", "propagated"}
          /\ request = NoRet
          /\ printed = ""
  /\ spc = "propagated" => pc = "raised"
  /\ raisedInScript # "none" => (spc = "done" /\ printed = "Error")
  /\ printed = "Error" => raisedInScript # "none"

C10_Witness ==
  /\ spc = "propagated"
  /\ pc = "raised"
  /\ request = NoRet
  /\ printed = ""

====
